---------------------------- MODULE Spec2Model ----------------------------
(***************************************************************************)
(* Model of the go-ia numeric container: the half-precision codec          *)
(* (package float16), Shape and Tensor (package graph, tensor part).       *)
(*                                                                         *)
(* Floating point numbers are kept as their IEEE-754 bit fields, so that   *)
(* every conversion is computed on the bits as the code computes it:       *)
(*   float32  [rep |-> "f32", s, e (8 bits),  hi (23 bit fraction), lo=0]  *)
(*   float64  [rep |-> "f64", s, e (11 bits), hi (top 23 fraction bits),   *)
(*             lo (low 29 fraction bits)]                                  *)
(*   Float16  [rep |-> "f16", s, e (5 bits),  hi (10 bit fraction), lo=0]  *)
(* A Float16 is a uint16 in the code; F16Bits/F16Val convert between the   *)
(* 16-bit pattern and the record.  rep "other" is a dynamic value of any   *)
(* other Go type handed to a parameter of type any.                        *)
(*                                                                         *)
(* A panic(ErrX) of the code is the status "X" of a call; a Go run-time    *)
(* panic (index out of range) is the status "Fault".  The caller may       *)
(* recover from either and go on using the tensor.                         *)
(***************************************************************************)
EXTENDS Integers, Sequences, FiniteSets, TLC

\* ------------------------------------------------------------------ bounds
\* largest number of elements of a tensor of the general specification
MaxLen == 4
\* largest rank of a shape handed to the operations
MaxRank == 2
\* largest number of elements of a source tensor of the sub-tensor specification
MaxSubLen == 3
\* largest rank of a shape of the 16-element scenario
ScenRank == 4
\* largest rank and axis size of the shapes of the index specification
IdxRank == 3
IdxDim == 3
\* largest rank and axis size of the shapes of the shape specification
ShRank == 3
ShDim == 4
\* largest number of elements of a tensor of the equality specification
EqLen == 2
\* largest number of nodes and of edges of a graph
MaxNodes == 3
MaxEdges == 3
\* largest number of stored data points and largest parallelism level of a KNN
KnnPoints == 2
KnnLevel == 2

\* ------------------------------------------------------- program constants
NaN == 32767
InfPos == 31744
InfNeg == 64512
Float16 == 1
Float32 == 2
Float64 == 3
\* the number of elements of the tensor of TestTensor
ScenLen == 16

\* --------------------------------------------------------------- bit fields
Pow2(n) == 2 ^ n

\* x >> n of an unsigned value below 2^31
Shr(x, n) == IF n >= 31 THEN 0 ELSE x \div Pow2(n)

Flt(rep, s, e, hi, lo) == [rep |-> rep, s |-> s, e |-> e, hi |-> hi, lo |-> lo]

\* the value of type Float16 whose uint16 pattern is h
F16Val(h) == Flt("f16", (h \div 32768) % 2, (h \div 1024) % 32, h % 1024, 0)

\* the uint16 pattern of a Float16
F16Bits(v) == v.s * 32768 + v.e * 1024 + v.hi

\* a | b for a in {0, 0x8000} and a 16-bit b
OrSign(a, b) == IF a = 32768 THEN 32768 + (b % 32768) ELSE b

\* Float16(frac >> n) of a 52-bit fraction hi * 2^29 + lo: its bits n .. n+15
\* (the code shifts by 42 or by at least 14)
Frac64Shr16(hi, lo, n) ==
  IF n >= 52 THEN 0
  ELSE IF n >= 29 THEN Shr(hi, n - 29) % 65536
  ELSE ((hi % Pow2(n - 13)) * Pow2(29 - n) + Shr(lo, n)) % 65536

\* FF32 that takes sexp > 0x1f, not >= 0x1f, as too large
FF32LateInf(value) ==
  LET sign == value.s
      exp  == value.e
      frac == value.hi
      sexp == exp - 127 + 15
  IN  IF exp = 255
        THEN IF frac # 0 THEN NaN ELSE OrSign(sign * 32768, InfPos)
      ELSE IF exp = 0
        THEN OrSign(sign * 32768, Shr(frac, 13))
      ELSE IF sexp > 31
        THEN OrSign(sign * 32768, InfPos)
      ELSE IF sexp <= 0
        THEN OrSign(sign * 32768, Shr(Shr(frac, 1 - sexp), 13) % 65536)
      ELSE sign * 32768 + sexp * 1024 + Shr(frac, 13)

\* ------------------------------------------------------------ float16 codec
FF32(value) ==
  LET sign == value.s
      exp  == value.e
      frac == value.hi
      sexp == exp - 127 + 15
  IN  IF exp = 255
        THEN IF frac # 0 THEN NaN ELSE OrSign(sign * 32768, InfPos)
      ELSE IF exp = 0
        THEN OrSign(sign * 32768, Shr(frac, 13))
      ELSE IF sexp >= 31
        THEN OrSign(sign * 32768, InfPos)
      ELSE IF sexp <= 0
        THEN OrSign(sign * 32768, Shr(Shr(frac, 1 - sexp), 13) % 65536)
      ELSE sign * 32768 + sexp * 1024 + Shr(frac, 13)

FF64(value) ==
  LET sign == value.s
      exp  == value.e
      sexp == exp - 1023 + 15
  IN  IF exp = 2047
        THEN IF value.hi # 0 \/ value.lo # 0 THEN NaN
             ELSE OrSign(sign * 32768, InfPos)
      ELSE IF exp = 0
        THEN OrSign(sign * 32768, Frac64Shr16(value.hi, value.lo, 42))
      ELSE IF sexp >= 31
        THEN OrSign(sign * 32768, InfPos)
      ELSE IF sexp <= 0
        THEN OrSign(sign * 32768, Frac64Shr16(value.hi, value.lo, (1 - sexp) + 13))
      ELSE sign * 32768 + sexp * 1024 + Frac64Shr16(value.hi, value.lo, 42)

\* the loop testing bit 9 (frac&0x200) instead of bit 10
RECURSIVE NormShiftsBit9(_)
NormShiftsBit9(frac) ==
  IF (frac \div 512) % 2 = 1 THEN 0 ELSE 1 + NormShiftsBit9(frac * 2)

\* the number of rounds of the loop `for frac&0x400 == 0 { frac <<= 1; exp-- }`
RECURSIVE NormShifts(_)
NormShifts(frac) ==
  IF (frac \div 1024) % 2 = 1 THEN 0 ELSE 1 + NormShifts(frac * 2)

\* sign<<(w-1) | exp<<m | frac<<k of an unsigned exp that may have wrapped:
\* bit eb of exp falls on the sign bit, the bits above it fall off
PackExp(rep, eb, sign, exp, frac, shift) ==
  LET ex == exp % Pow2(eb + 1)
  IN  Flt(rep, IF sign = 1 \/ ex >= Pow2(eb) THEN 1 ELSE 0, ex % Pow2(eb),
          frac * Pow2(shift), 0)

\* ToF32 that leaves the sign out of an infinity
ToF32Unsigned(f16) ==
  LET sign == (f16 \div 32768) % 2
      exp  == (f16 \div 1024) % 32
      frac == f16 % 1024
      n    == NormShifts(frac)
  IN  IF exp = 31
        THEN IF frac # 0 THEN Flt("f32", 0, 255, frac * 8192 + 1, 0)
             ELSE Flt("f32", 0, 255, 0, 0)
      ELSE IF frac = 0 /\ exp = 0
        THEN Flt("f32", 0, 0, 0, 0)
      ELSE IF exp = 0
        THEN PackExp("f32", 8, sign, (0 - n) + 1 + (127 - 15),
                     (frac * Pow2(n)) % 1024, 13)
      ELSE PackExp("f32", 8, sign, exp + (127 - 15), frac, 13)

ToF32(f16) ==
  LET sign == (f16 \div 32768) % 2
      exp  == (f16 \div 1024) % 32
      frac == f16 % 1024
      n    == NormShifts(frac)
  IN  IF exp = 31
        THEN IF frac # 0 THEN Flt("f32", 0, 255, frac * 8192 + 1, 0)
             ELSE Flt("f32", sign, 255, 0, 0)
      ELSE IF frac = 0 /\ exp = 0
        THEN Flt("f32", 0, 0, 0, 0)
      ELSE IF exp = 0
        THEN PackExp("f32", 8, sign, (0 - n) + 1 + (127 - 15),
                     (frac * Pow2(n)) % 1024, 13)
      ELSE PackExp("f32", 8, sign, exp + (127 - 15), frac, 13)

ToF64(f16) ==
  LET sign == (f16 \div 32768) % 2
      exp  == (f16 \div 1024) % 32
      frac == f16 % 1024
      n    == NormShifts(frac)
  IN  IF exp = 31
        THEN IF frac # 0 THEN Flt("f64", 0, 2047, frac * 8192, 1)
             ELSE Flt("f64", sign, 2047, 0, 0)
      ELSE IF frac = 0 /\ exp = 0
        THEN Flt("f64", 0, 0, 0, 0)
      ELSE IF exp = 0
        THEN PackExp("f64", 11, sign, (0 - n) + 1 + (1023 - 15),
                     (frac * Pow2(n)) % 1024, 13)
      ELSE PackExp("f64", 11, sign, exp + (1023 - 15), frac, 13)

\* ------------------------------------------------- Go's float conversions
\* the shifts that bring bit 23 of a float32 subnormal's fraction to 1
RECURSIVE Norm32Shifts(_)
Norm32Shifts(frac) ==
  IF frac >= 8388608 THEN 0 ELSE 1 + Norm32Shifts(frac * 2)

\* float64(v) of a float32 v: exact
F32ToF64(v) ==
  IF v.e = 255
    THEN IF v.hi # 0 THEN Flt("f64", v.s, 2047, v.hi + (IF v.hi >= 4194304 THEN 0 ELSE 4194304), 0)
         ELSE Flt("f64", v.s, 2047, 0, 0)
  ELSE IF v.e = 0
    THEN IF v.hi = 0 THEN Flt("f64", v.s, 0, 0, 0)
         ELSE LET n == Norm32Shifts(v.hi)
              IN  Flt("f64", v.s, 1023 - 126 - n, (v.hi * Pow2(n)) % 8388608, 0)
  ELSE Flt("f64", v.s, v.e - 127 + 1023, v.hi, 0)

\* float32(v) of a float64 v: round to nearest, ties to even
F64ToF32(v) ==
  LET E    == v.e - 1023 + 127
      up   == v.lo > 268435456 \/ (v.lo = 268435456 /\ v.hi % 2 = 1)
      m    == v.hi + (IF up THEN 1 ELSE 0)
      sh   == 1 - E
      m24  == 8388608 + v.hi
      q    == Shr(m24, sh)
      r    == m24 % Pow2(sh)
      half == Pow2(sh - 1)
      upS  == r > half \/ (r = half /\ (v.lo # 0 \/ q % 2 = 1))
      mS   == q + (IF upS THEN 1 ELSE 0)
  IN  IF v.e = 2047
        THEN IF v.hi # 0 \/ v.lo # 0
               THEN Flt("f32", v.s, 255, v.hi + (IF v.hi >= 4194304 THEN 0 ELSE 4194304), 0)
             ELSE Flt("f32", v.s, 255, 0, 0)
      ELSE IF v.e = 0 THEN Flt("f32", v.s, 0, 0, 0)
      ELSE IF E >= 255 THEN Flt("f32", v.s, 255, 0, 0)
      ELSE IF E >= 1
        THEN IF m < 8388608 THEN Flt("f32", v.s, E, m, 0)
             ELSE IF E + 1 = 255 THEN Flt("f32", v.s, 255, 0, 0)
             ELSE Flt("f32", v.s, E + 1, 0, 0)
      ELSE IF sh >= 25 THEN Flt("f32", v.s, 0, 0, 0)
      ELSE IF mS < 8388608 THEN Flt("f32", v.s, 0, mS, 0)
      ELSE Flt("f32", v.s, 1, 0, 0)

\* v[i] != o[i] of two elements of one representation: a Float16 is compared
\* as the integer it is, a float32 or float64 as a float (a NaN differs from
\* everything, the two zeros are equal)
IsNaN(v) ==
  \/ (v.rep = "f32" /\ v.e = 255 /\ v.hi # 0)
  \/ (v.rep = "f64" /\ v.e = 2047 /\ (v.hi # 0 \/ v.lo # 0))

IsZero(v) == v.e = 0 /\ v.hi = 0 /\ v.lo = 0

ElemNe(a, b) ==
  IF a.rep = "f16" THEN a # b
  ELSE IsNaN(a) \/ IsNaN(b) \/ (a # b /\ ~(IsZero(a) /\ IsZero(b)))

\* ------------------------------------------------------------------- Shape
\* A Shape is the sequence of its axis sizes (axis 0 of the code is element 1).
Res(st, v) == [st |-> st, v |-> v]

RECURSIVE ShapeLen(_)
ShapeLen(sh) == IF Len(sh) = 0 THEN 1 ELSE sh[1] * ShapeLen(Tail(sh))

\* strides with the last axis varying fastest
RECURSIVE StrideAtRowMajor(_, _)
StrideAtRowMajor(sh, i) ==
  IF i >= Len(sh) THEN 1 ELSE StrideAtRowMajor(sh, i + 1) * sh[i + 1]

RECURSIVE StrideAt(_, _)
StrideAt(sh, i) == IF i = 1 THEN 1 ELSE StrideAt(sh, i - 1) * sh[i - 1]

\* StrideOf multiplies sh[1..] whatever dim is
RECURSIVE StrideOfFrom(_, _)
StrideOfFrom(sh, i) ==
  IF i > Len(sh) THEN 1 ELSE sh[i] * StrideOfFrom(sh, i + 1)

StrideOf(sh, dim) == StrideOfFrom(sh, 2)

\* strides[0] = 1 is an index out of range on a shape of rank 0
Strides(sh) ==
  IF Len(sh) = 0 THEN Res("Fault", <<>>)
  ELSE Res("ok", [i \in 1..Len(sh) |-> StrideAt(sh, i)])

RECURSIVE ShapeEqualFrom(_, _, _)
ShapeEqualFrom(sh, other, i) ==
  IF i > Len(sh) THEN Res("ok", TRUE)
  ELSE IF i > Len(other) THEN Res("Fault", FALSE)
  ELSE IF sh[i] # other[i] THEN Res("ok", FALSE)
  ELSE ShapeEqualFrom(sh, other, i + 1)

ShapeEqual(sh, other) ==
  IF ShapeLen(sh) # ShapeLen(other) THEN Res("ok", FALSE)
  ELSE ShapeEqualFrom(sh, other, 1)

\* ------------------------------------------------------------------ Tensor
\* The heap maps a buffer's address to the slice stored there; a tensor's
\* data field is the address of its slice, so two tensors built over one
\* slice share their elements.
BufIds == {1, 2}

NoBuf == [rep |-> "none", v |-> <<>>]

EmptyHeap == [b \in BufIds |-> NoBuf]

NoTensor == [rank |-> -1, data |-> 0, shape |-> <<>>, typ |-> 0, strides |-> <<>>]

NoVal == Flt("none", 0, 0, 0, 0)

Types == {Float16, Float32, Float64}

RepOf(typ) == IF typ = Float16 THEN "f16" ELSE IF typ = Float32 THEN "f32" ELSE "f64"

\* the result of a call: its status, the heap and the tensor after it, and
\* the value it returns
Out(st, h, t, val) == [st |-> st, h |-> h, t |-> t, val |-> val]

MakeBuf(rep, n) == [rep |-> rep, v |-> [i \in 1..n |-> Flt(rep, 0, 0, 0, 0)]]

\* the slice NewTensor makes when data is nil
NilRep(typ) ==
  IF typ = Float16 THEN "f16" ELSE IF typ = Float64 THEN "f32" ELSE "f64"

\* the type switch without its conversions
ConvertElemKeep(v, typ) == v

\* one element through the conversion NewTensor's type switch applies
ConvertElem(v, typ) ==
  CASE v.rep = "f16" /\ typ = Float32 -> ToF32(F16Bits(v))
    [] v.rep = "f16" /\ typ = Float64 -> ToF64(F16Bits(v))
    [] v.rep = "f64" /\ typ = Float16 -> F16Val(FF64(v))
    [] v.rep = "f64" /\ typ = Float32 -> F64ToF32(v)
    [] v.rep = "f32" /\ typ = Float16 -> F16Val(FF32(v))
    [] v.rep = "f32" /\ typ = Float64 -> F32ToF64(v)
    [] OTHER -> v

NilData == [kind |-> "nil", id |-> 0, buf |-> NoBuf]

\* data: NilData, or [kind |-> "slice", id |-> the slice's address, buf |-> the
\* slice]; newId: the address of the slice the call allocates, if it does
NewTensor(h, newId, data, typ, shape) ==
  LET given == IF data.kind = "nil"
                 THEN [kind |-> "slice", id |-> newId,
                       buf |-> MakeBuf(NilRep(typ), ShapeLen(shape))]
                 ELSE data
      src   == given.buf
      conv  == src.rep # RepOf(typ)
      buf   == IF conv
                 THEN [rep |-> RepOf(typ),
                       v |-> [i \in 1..Len(src.v) |-> ConvertElem(src.v[i], typ)]]
                 ELSE src
      id    == IF conv THEN newId ELSE given.id
      st    == Strides(shape)
  IN  IF typ \notin Types THEN Out("TypeMismatch", h, NoTensor, NoVal)
      ELSE IF \E i \in 1..Len(shape) : shape[i] <= 0
        THEN Out("InvalidShape", h, NoTensor, NoVal)
      ELSE IF src.rep \notin {"f16", "f32", "f64"}
        THEN Out("InvalidData", h, NoTensor, NoVal)
      ELSE IF Len(src.v) # ShapeLen(shape)
        THEN Out("InvalidShape", h, NoTensor, NoVal)
      ELSE IF st.st # "ok" THEN Out("Fault", h, NoTensor, NoVal)
      ELSE Out("ok", [h EXCEPT ![id] = buf],
               [rank |-> Len(shape), data |-> id, shape |-> shape, typ |-> typ,
                strides |-> st.v], NoVal)

\* F16Slice, F32Slice, F64Slice: the tensor's own slice, not a copy
FSlice(h, ts, typ) ==
  IF ts.typ # typ THEN Out("TypeMismatch", h, ts, NoVal)
  ELSE IF h[ts.data].rep # RepOf(typ) THEN Out("Fault", h, ts, NoVal)
  ELSE Out("ok", h, ts, NoVal)

\* Reshape that lays the buffer out anew, last element first
ReshapeShuffle(h, ts, shape) ==
  LET st == Strides(shape)
      n  == Len(h[ts.data].v)
  IN  IF \E i \in 1..Len(shape) : shape[i] <= 0
        THEN Out("InvalidShape", h, ts, NoVal)
      ELSE IF ts.typ \in Types /\ h[ts.data].rep # RepOf(ts.typ)
        THEN Out("Fault", h, ts, NoVal)
      ELSE IF ts.typ \in Types /\ n # ShapeLen(shape)
        THEN Out("InvalidShape", h, ts, NoVal)
      ELSE IF st.st # "ok"
        THEN Out("Fault", h, [ts EXCEPT !.shape = shape], NoVal)
      ELSE Out("ok",
               [h EXCEPT ![ts.data].v = [i \in 1..n |-> h[ts.data].v[n + 1 - i]]],
               [ts EXCEPT !.shape = shape, !.strides = st.v, !.rank = Len(shape)],
               NoVal)

\* Reshape without the comparison of shape.Len() with the slice's length
ReshapeAnyLen(h, ts, shape) ==
  LET st == Strides(shape)
  IN  IF \E i \in 1..Len(shape) : shape[i] <= 0
        THEN Out("InvalidShape", h, ts, NoVal)
      ELSE IF ts.typ \in Types /\ h[ts.data].rep # RepOf(ts.typ)
        THEN Out("Fault", h, ts, NoVal)
      ELSE IF st.st # "ok"
        THEN Out("Fault", h, [ts EXCEPT !.shape = shape], NoVal)
      ELSE Out("ok", h, [ts EXCEPT !.shape = shape, !.strides = st.v,
                                   !.rank = Len(shape)], NoVal)

Reshape(h, ts, shape) ==
  LET st == Strides(shape)
  IN  IF \E i \in 1..Len(shape) : shape[i] <= 0
        THEN Out("InvalidShape", h, ts, NoVal)
      ELSE IF ts.typ \in Types /\ h[ts.data].rep # RepOf(ts.typ)
        THEN Out("Fault", h, ts, NoVal)
      ELSE IF ts.typ \in Types /\ Len(h[ts.data].v) # ShapeLen(shape)
        THEN Out("InvalidShape", h, ts, NoVal)
      ELSE IF st.st # "ok"
        THEN Out("Fault", h, [ts EXCEPT !.shape = shape], NoVal)
      ELSE Out("ok", h, [ts EXCEPT !.shape = shape, !.strides = st.v,
                                   !.rank = Len(shape)], NoVal)

\* Go's / and % truncate towards zero
GoDiv(a, b) == IF a >= 0 THEN a \div b ELSE 0 - ((0 - a) \div b)

GoMod(a, b) == a - b * GoDiv(a, b)

\* index without offset %= ts.strides[i]
RECURSIVE indexFromNoRemainder(_, _, _, _)
indexFromNoRemainder(strides, i, off, idx) ==
  IF i = 0 THEN idx
  ELSE indexFromNoRemainder(strides, i - 1, off,
                            [idx EXCEPT ![i] = GoDiv(off, strides[i])])

RECURSIVE indexFrom(_, _, _, _)
indexFrom(strides, i, off, idx) ==
  IF i = 0 THEN idx
  ELSE indexFrom(strides, i - 1, GoMod(off, strides[i]),
                 [idx EXCEPT ![i] = GoDiv(off, strides[i])])

\* index[i] is out of range when the cached strides outnumber the axes
index(ts, off) ==
  IF Len(ts.strides) > Len(ts.shape) THEN Res("Fault", <<>>)
  ELSE Res("ok", indexFrom(ts.strides, Len(ts.strides), off,
                           [i \in 1..Len(ts.shape) |-> 0]))

testOffset(ts, off) ==
  IF off < 0 \/ off > ShapeLen(ts.shape) THEN "IndexOutOfRange" ELSE "ok"

RECURSIVE offsetFrom(_, _, _)
offsetFrom(strides, idx, i) ==
  IF i > Len(idx) THEN 0
  ELSE strides[i] * idx[i] + offsetFrom(strides, idx, i + 1)

offset(ts, idx) ==
  IF Len(idx) > Len(ts.strides) THEN Res("Fault", 0)
  ELSE Res("ok", offsetFrom(ts.strides, idx, 1))

testIndex(ts, idx) ==
  IF Len(idx) # Len(ts.shape) THEN "DimMismatch"
  ELSE IF \E i \in 1..Len(idx) : idx[i] < 0 \/ idx[i] >= ts.shape[i]
    THEN "IndexOutOfRange"
  ELSE "ok"

\* ts.data.([]T)[off]: the type assertion, then the slice's bounds check
at(h, ts, off) ==
  LET b == h[ts.data]
  IN  IF ts.typ \notin Types THEN Out("InvalidData", h, ts, NoVal)
      ELSE IF b.rep # RepOf(ts.typ) THEN Out("Fault", h, ts, NoVal)
      ELSE IF off < 0 \/ off >= Len(b.v) THEN Out("Fault", h, ts, NoVal)
      ELSE Out("ok", h, ts, b.v[off + 1])

get(h, ts, idx) ==
  LET o == offset(ts, idx)
  IN  IF o.st # "ok" THEN Out("Fault", h, ts, NoVal) ELSE at(h, ts, o.v)

Get(h, ts, idx) ==
  IF testIndex(ts, idx) # "ok" THEN Out(testIndex(ts, idx), h, ts, NoVal)
  ELSE get(h, ts, idx)

GetAt(h, ts, off) ==
  IF testOffset(ts, off) # "ok" THEN Out(testOffset(ts, off), h, ts, NoVal)
  ELSE at(h, ts, off)

setAt(h, ts, off, value) ==
  LET b == h[ts.data]
  IN  IF ts.typ \notin Types THEN Out("InvalidData", h, ts, NoVal)
      ELSE IF b.rep # RepOf(ts.typ) THEN Out("Fault", h, ts, NoVal)
      ELSE IF value.rep # RepOf(ts.typ) THEN Out("TypeMismatch", h, ts, NoVal)
      ELSE IF off < 0 \/ off >= Len(b.v) THEN Out("Fault", h, ts, NoVal)
      ELSE Out("ok", [h EXCEPT ![ts.data].v[off + 1] = value], ts, NoVal)

SetAt(h, ts, off, value) ==
  IF testOffset(ts, off) # "ok" THEN Out(testOffset(ts, off), h, ts, NoVal)
  ELSE setAt(h, ts, off, value)

set(h, ts, idx, value) ==
  LET o == offset(ts, idx)
  IN  IF o.st # "ok" THEN Out("Fault", h, ts, NoVal)
      ELSE setAt(h, ts, o.v, value)

Set(h, ts, idx, value) ==
  IF testIndex(ts, idx) # "ok" THEN Out(testIndex(ts, idx), h, ts, NoVal)
  ELSE set(h, ts, idx, value)

\* GetF16At, GetF32At, GetF64At
GetFAt(h, ts, typ, idx) ==
  IF ts.typ # typ THEN Out("TypeMismatch", h, ts, NoVal)
  ELSE IF testIndex(ts, idx) # "ok" THEN Out(testIndex(ts, idx), h, ts, NoVal)
  ELSE get(h, ts, idx)

\* SetF16, SetF32, SetF64: value is of the accessor's type
SetF(h, ts, typ, idx, value) ==
  IF ts.typ # typ THEN Out("TypeMismatch", h, ts, NoVal)
  ELSE IF testIndex(ts, idx) # "ok" THEN Out(testIndex(ts, idx), h, ts, NoVal)
  ELSE set(h, ts, idx, value)

testKey(ts, key) ==
  IF Len(key) # Len(ts.shape) THEN "DimMismatch"
  ELSE IF \E i \in 1..Len(key) : key[i] < -1 \/ key[i] >= ts.shape[i]
    THEN "IndexOutOfRange"
  ELSE "ok"

\* the copy loop of GetSub, from offset off of the new tensor on
RECURSIVE GetSubCopy(_, _, _, _, _, _)
GetSubCopy(h, ts, tensor, key, off, length) ==
  IF off >= length THEN Out("ok", h, tensor, NoVal)
  ELSE LET dst == index(tensor, off)
           src == [i \in 1..Len(key) |-> IF key[i] # -1 THEN key[i] ELSE dst.v[i]]
           g   == get(h, ts, src)
           s   == set(h, tensor, dst.v, g.val)
       IN  IF dst.st # "ok" THEN Out("Fault", h, NoTensor, NoVal)
           ELSE IF g.st # "ok" THEN Out(g.st, h, NoTensor, NoVal)
           ELSE IF s.st # "ok" THEN Out(s.st, h, NoTensor, NoVal)
           ELSE GetSubCopy(s.h, ts, tensor, key, off + 1, length)

\* GetSub that hands out the source's own buffer for an all-wildcard key
GetSubView(h, newId, ts, key) ==
  LET shape == [i \in 1..Len(key) |-> IF key[i] = -1 THEN ts.shape[i] ELSE 1]
      nt    == NewTensor(h, newId, NilData, ts.typ, shape)
      cp    == GetSubCopy(nt.h, ts, nt.t, key, 0, ShapeLen(shape))
  IN  IF testKey(ts, key) # "ok" THEN Out(testKey(ts, key), h, NoTensor, NoVal)
      ELSE IF nt.st # "ok" THEN Out(nt.st, h, NoTensor, NoVal)
      ELSE IF \A i \in 1..Len(key) : key[i] = -1 THEN Out("ok", h, ts, NoVal)
      ELSE IF cp.st # "ok" THEN Out(cp.st, h, NoTensor, NoVal)
      ELSE cp

GetSub(h, newId, ts, key) ==
  LET shape == [i \in 1..Len(key) |-> IF key[i] = -1 THEN ts.shape[i] ELSE 1]
      nt    == NewTensor(h, newId, NilData, ts.typ, shape)
      cp    == GetSubCopy(nt.h, ts, nt.t, key, 0, ShapeLen(shape))
  IN  IF testKey(ts, key) # "ok" THEN Out(testKey(ts, key), h, NoTensor, NoVal)
      ELSE IF nt.st # "ok" THEN Out(nt.st, h, NoTensor, NoVal)
      ELSE IF cp.st # "ok" THEN Out(cp.st, h, NoTensor, NoVal)
      ELSE cp

RECURSIVE DataEqualFrom(_, _, _, _)
DataEqualFrom(v, o, i, length) ==
  IF i > length THEN Res("ok", TRUE)
  ELSE IF i > Len(v) \/ i > Len(o) THEN Res("Fault", FALSE)
  ELSE IF ElemNe(v[i], o[i]) THEN Res("ok", FALSE)
  ELSE DataEqualFrom(v, o, i + 1, length)

TensorEqual(h, ts, other) ==
  LET se == ShapeEqual(ts.shape, other.shape)
  IN  IF se.st # "ok" THEN Res("Fault", FALSE)
      ELSE IF ~se.v THEN Res("ok", FALSE)
      ELSE IF ts.typ # other.typ THEN Res("ok", FALSE)
      ELSE IF ts.typ \notin Types THEN Res("ok", TRUE)
      ELSE IF h[ts.data].rep # RepOf(ts.typ) \/ h[other.data].rep # RepOf(ts.typ)
        THEN Res("Fault", FALSE)
      ELSE DataEqualFrom(h[ts.data].v, h[other.data].v, 1, ShapeLen(ts.shape))

\* ------------------------------------------------------------------- state
\* heap: the slices; ts, sub: the caller's two tensor variables (NoTensor:
\* not assigned yet); ret: the last call, its status and what it returned;
\* graph: the caller's Graph; knn: a run of KNN.Fit and its goroutines.
VARIABLES heap, ts, sub, ret, graph, knn

vars == <<heap, ts, sub, ret, graph, knn>>

\* graph.New: no vertices; edges[dst] lists the sources of the edges into dst
NewGraph == [vertices |-> 0, edges |-> <<>>]

\* no KNN constructed
NoKnn == [pc |-> "none"]

Ret(op, st, k, idx, val) == [op |-> op, st |-> st, k |-> k, idx |-> idx, val |-> val]

NoRet == Ret("none", "ok", 0, <<>>, NoVal)

\* ------------------------------------------------------------------ inputs
\* the float 1.0 in each representation, and a value of another Go type
One(rep) ==
  IF rep = "f16" THEN Flt("f16", 0, 15, 0, 0)
  ELSE IF rep = "f32" THEN Flt("f32", 0, 127, 0, 0)
  ELSE Flt("f64", 0, 1023, 0, 0)

Other == Flt("other", 0, 0, 0, 0)

Values == {One("f16"), One("f32"), One("f64"), Other}

\* the float64 n for 0 <= n < 2^23
RECURSIVE Log2(_)
Log2(n) == IF n <= 1 THEN 0 ELSE 1 + Log2(n \div 2)

F64Of(n) ==
  IF n = 0 THEN Flt("f64", 0, 0, 0, 0)
  ELSE Flt("f64", 0, 1023 + Log2(n), (n - Pow2(Log2(n))) * Pow2(23 - Log2(n)), 0)

\* the caller's slices: 0, 1, .., n-1 in representation rep ("other": a slice
\* of another element type)
Iota(rep, n) ==
  [rep |-> rep,
   v |-> [i \in 1..n |-> IF rep = "f64" THEN F64Of(i - 1)
                         ELSE IF rep = "f32" THEN F64ToF32(F64Of(i - 1))
                         ELSE IF rep = "f16" THEN F16Val(FF64(F64Of(i - 1)))
                         ELSE Other]]

\* shapes of rank r with positive axis sizes and at most n elements
PosShapes(r, n) == {sh \in [1..r -> 1..n] : ShapeLen(sh) <= n}

\* shapes with an axis size <= 0
BadShapes == {<<0>>, <<-1>>, <<1, 0>>, <<-1, -1>>}

ShapeInputs == BadShapes \cup UNION {PosShapes(r, MaxLen) : r \in 0..MaxRank}

\* every multi-index (or key, from -1) at most one off the axis bounds, and
\* two of another rank
IndexInputs(sh, low) ==
  {idx \in [1..Len(sh) -> low..MaxLen + 1] : \A i \in 1..Len(sh) : idx[i] <= sh[i]}
    \cup {Append(sh, 0)} \cup {<<>>}

TypInputs == Types \cup {0}

\* ------------------------------------------- the general specification
Init ==
  /\ heap = EmptyHeap
  /\ ts = NoTensor
  /\ sub = NoTensor
  /\ graph = NewGraph
  /\ knn = NoKnn
  /\ ret = NoRet

\* the only slice alive is moved to address 1 (addresses are names)
Compact(r) ==
  [r EXCEPT !.h = [b \in BufIds |-> IF b = 1 THEN r.h[r.t.data] ELSE NoBuf],
            !.t.data = 1]

\* the caller makes a call once it has taken the result of the one before
\* (Observe)
Idle == ret = NoRet

\* the call's effect on the caller's ts, and its record
OnTs(r, op, k, idx) ==
  /\ ts' = r.t
  /\ heap' = r.h
  /\ sub' = sub
  /\ UNCHANGED <<graph, knn>>
  /\ ret' = Ret(op, r.st, k, idx, r.val)

\* ts = NewTensor(data, typ, shape): ts keeps its tensor when the call panics
Assign(r, op, k, idx) ==
  IF r.st = "ok" THEN OnTs(Compact(r), op, k, idx)
  ELSE OnTs(Out(r.st, heap, ts, r.val), op, k, idx)

\* the slices a caller makes for a shape: of each representation and of the
\* shape's length, and one that is one element too long
DataInputs(shape) ==
  {NilData}
    \cup {[kind |-> "slice", id |-> 2, buf |-> Iota(rep, ShapeLen(shape))] :
            rep \in {"f16", "f32", "f64", "other"}}
    \cup {[kind |-> "slice", id |-> 2, buf |-> Iota("f64", ShapeLen(shape) + 1)]}

\* the data argument as the record of a call keeps it: nil or a slice, its
\* element type and its length
DataArg(data) == [kind |-> data.kind, rep |-> data.buf.rep, len |-> Len(data.buf.v)]

NewTensorCall(data, typ, shape) ==
  Assign([NewTensor(heap, 2, data, typ, shape) EXCEPT !.val = DataArg(data)],
         IF data.kind = "nil" THEN "NewTensorNil" ELSE "NewTensor", typ, shape)

\* ts = NewTensor(data, typ, shape) over nil or a slice of the caller's.  The
\* call reads nothing of an earlier tensor, so it is taken from the start.
DoNewTensor ==
  /\ Idle
  /\ ts = NoTensor
  /\ \E shape \in ShapeInputs, typ \in TypInputs :
       \E data \in DataInputs(IF \E i \in 1..Len(shape) : shape[i] <= 0
                                THEN <<1>> ELSE shape) :
         NewTensorCall(data, typ, shape)

\* ts = NewTensor(ts.F16Slice(), typ, shape), and so for the other accessors:
\* a tensor over the slice of the one before
DoNewTensorOver ==
  /\ Idle
  /\ ts # NoTensor
  /\ \E shape \in ShapeInputs, typ \in TypInputs :
       NewTensorCall([kind |-> "slice", id |-> ts.data, buf |-> heap[ts.data]],
                     typ, shape)

DoGet ==
  /\ Idle
  /\ ts # NoTensor
  /\ \E idx \in IndexInputs(ts.shape, -1) : OnTs(Get(heap, ts, idx), "Get", 0, idx)

DoGetF ==
  /\ Idle
  /\ ts # NoTensor
  /\ \E idx \in IndexInputs(ts.shape, -1), typ \in Types :
       OnTs(GetFAt(heap, ts, typ, idx), "GetFAt", typ, idx)

DoGetAt ==
  /\ Idle
  /\ ts # NoTensor
  /\ \E k \in -1..MaxLen + 1 : OnTs(GetAt(heap, ts, k), "GetAt", k, <<>>)

DoSet ==
  /\ Idle
  /\ ts # NoTensor
  /\ \E idx \in IndexInputs(ts.shape, -1), value \in Values :
       OnTs([Set(heap, ts, idx, value) EXCEPT !.val = value], "Set", 0, idx)

DoSetF ==
  /\ Idle
  /\ ts # NoTensor
  /\ \E idx \in IndexInputs(ts.shape, -1), typ \in Types :
       OnTs([SetF(heap, ts, typ, idx, One(RepOf(typ))) EXCEPT !.val = One(RepOf(typ))],
            "SetF", typ, idx)

DoSetAt ==
  /\ Idle
  /\ ts # NoTensor
  /\ \E k \in -1..MaxLen + 1, value \in Values :
       OnTs([SetAt(heap, ts, k, value) EXCEPT !.val = value], "SetAt", k, <<>>)

DoReshape ==
  /\ Idle
  /\ ts # NoTensor
  /\ \E shape \in ShapeInputs : OnTs(Reshape(heap, ts, shape), "Reshape", 0, shape)

\* ts = ts.GetSub(key)
DoGetSub ==
  /\ Idle
  /\ ts # NoTensor
  /\ \E key \in IndexInputs(ts.shape, -1) :
       LET r == GetSub(heap, 2, ts, key)
       IN  IF r.st = "ok" THEN OnTs(Compact(r), "GetSub", 0, key)
           ELSE OnTs(Out(r.st, heap, ts, NoVal), "GetSub", 0, key)

DoFSlice ==
  /\ Idle
  /\ ts # NoTensor
  /\ \E typ \in Types : OnTs(FSlice(heap, ts, typ), "FSlice", typ, <<>>)

\* ts.Equal(ts), and ts.Equal(NewTensor(nil, typ, shape))
DoEqual ==
  /\ Idle
  /\ ts # NoTensor
  /\ \/ OnTs(Out(TensorEqual(heap, ts, ts).st, heap, ts, NoVal), "Equal", 1, <<>>)
     \/ \E shape \in UNION {PosShapes(r, MaxLen) : r \in 1..MaxRank}, typ \in Types :
          LET nt == NewTensor(heap, 2, NilData, typ, shape)
          IN  OnTs(Out(TensorEqual(nt.h, ts, nt.t).st, heap, ts, NoVal), "Equal", 0, <<>>)

\* Shape.Equal and Shape.Strides read no tensor: they are called at the start
DoShapeEqual ==
  /\ Idle
  /\ ts = NoTensor
  /\ \E a \in ShapeInputs, b \in ShapeInputs :
    OnTs(Out(ShapeEqual(a, b).st, heap, ts, NoVal), "ShapeEqual", 0, <<>>)

DoStrides ==
  /\ Idle
  /\ ts = NoTensor
  /\ \E a \in ShapeInputs :
    OnTs(Out(Strides(a).st, heap, ts, NoVal), "Strides", 0, <<>>)

\* the caller takes the result of the last call
Observe ==
  /\ ret # NoRet
  /\ ret' = NoRet
  /\ UNCHANGED <<heap, ts, sub, graph, knn>>

Next ==
  \/ Observe
  \/ DoNewTensor
  \/ DoNewTensorOver
  \/ DoGet
  \/ DoGetF
  \/ DoGetAt
  \/ DoSet
  \/ DoSetF
  \/ DoSetAt
  \/ DoReshape
  \/ DoGetSub
  \/ DoFSlice
  \/ DoEqual
  \/ DoShapeEqual
  \/ DoStrides

Spec == Init /\ [][Next]_vars

\* the product of the axis sizes sh[1] .. sh[n]
RECURSIVE AxisProduct(_, _)
AxisProduct(sh, n) == IF n = 0 THEN 1 ELSE sh[n] * AxisProduct(sh, n - 1)

\* ------------------------------------------------ the 16-element scenario
\* TestTensor: the doubles 0..15 under shape (4,4), built in either precision,
\* then reshaped and read.
ScenShapes ==
  UNION {{sh \in [1..r -> {1, 2, 4, 8, 16}] : ShapeLen(sh) = ScenLen} : r \in 1..ScenRank}

\* the multi-index of flat offset k, by division
Unrank(sh, k) ==
  [a \in 1..Len(sh) |-> (k \div AxisProduct(sh, a - 1)) % sh[a]]

InRange(sh) == {Unrank(sh, k) : k \in 0..AxisProduct(sh, Len(sh)) - 1}

\* every in-range multi-index, each with one coordinate put on or below its
\* axis bound, and two of another rank
ScenIndexInputs(sh) ==
  InRange(sh)
    \cup {[idx EXCEPT ![a] = sh[a]] : idx \in InRange(sh), a \in 1..Len(sh)}
    \cup {[idx EXCEPT ![a] = -1] : idx \in {Unrank(sh, 0)}, a \in 1..Len(sh)}
    \cup {Append(sh, 0)} \cup {<<>>}

InitScenario ==
  \E typ \in Types :
    LET r == Compact(NewTensor(EmptyHeap, 2,
                               [kind |-> "slice", id |-> 1, buf |-> Iota("f64", ScenLen)],
                               typ, <<4, 4>>))
    IN  /\ heap = r.h
        /\ ts = r.t
        /\ sub = NoTensor
        /\ graph = NewGraph
        /\ knn = NoKnn
        /\ ret = NoRet

ScenGet ==
  /\ Idle
  /\ \E idx \in ScenIndexInputs(ts.shape) : OnTs(Get(heap, ts, idx), "Get", 0, idx)

ScenGetF ==
  /\ Idle
  /\ \E idx \in ScenIndexInputs(ts.shape), typ \in Types :
       OnTs(GetFAt(heap, ts, typ, idx), "GetFAt", typ, idx)

ScenGetAt ==
  /\ Idle
  /\ \E k \in -1..ScenLen + 1 : OnTs(GetAt(heap, ts, k), "GetAt", k, <<>>)

ScenReshape ==
  /\ Idle
  /\ \E shape \in ScenShapes \cup ShapeInputs :
       OnTs(Reshape(heap, ts, shape), "Reshape", 0, shape)

NextScenario ==
  \/ Observe
  \/ ScenGet
  \/ ScenGetF
  \/ ScenGetAt
  \/ ScenReshape

SpecScenario == InitScenario /\ [][NextScenario]_vars

\* ------------------------------------------------- the index specification
\* index and offset applied to the tensors of every small shape.
IdxShapes == UNION {[1..r -> 1..IdxDim] : r \in 1..IdxRank}

InitIdx ==
  \E shape \in IdxShapes :
    LET r == Compact(NewTensor(EmptyHeap, 2, NilData, Float64, shape))
    IN  /\ heap = r.h
        /\ ts = r.t
        /\ sub = NoTensor
        /\ graph = NewGraph
        /\ knn = NoKnn
        /\ ret = NoRet

\* idx = ts.index(k)
IdxIndex ==
  /\ Idle
  /\ \E k \in 0..ShapeLen(ts.shape) - 1 :
       LET r == index(ts, k)
       IN  /\ ret' = Ret("index", r.st, k, r.v, NoVal)
           /\ UNCHANGED <<heap, ts, sub, graph, knn>>

\* k = ts.offset(idx)
IdxOffset ==
  /\ Idle
  /\ \E idx \in [1..Len(ts.shape) -> 0..IdxDim - 1] :
       /\ \A a \in 1..Len(idx) : idx[a] < ts.shape[a]
       /\ LET r == offset(ts, idx)
          IN  /\ ret' = Ret("offset", r.st, r.v, idx, NoVal)
              /\ UNCHANGED <<heap, ts, sub, graph, knn>>

NextIdx ==
  \/ Observe
  \/ IdxIndex
  \/ IdxOffset

SpecIdx == InitIdx /\ [][NextIdx]_vars

\* --------------------------------------------- the sub-tensor specification
\* A source tensor ts over distinct elements, the tensor sub = ts.GetSub(key),
\* and writes and reshapes of either.  ret.k names the receiver: 1 for ts,
\* 2 for sub.
SubShapes == UNION {PosShapes(r, MaxSubLen) : r \in 1..MaxRank}

SubShapeInputs == BadShapes \cup {<<>>} \cup SubShapes

InitSub ==
  \E typ \in Types, shape \in SubShapes :
    LET r == NewTensor(EmptyHeap, 1,
                       [kind |-> "slice", id |-> 1,
                        buf |-> Iota(RepOf(typ), ShapeLen(shape))],
                       typ, shape)
    IN  /\ heap = r.h
        /\ ts = r.t
        /\ sub = NoTensor
        /\ graph = NewGraph
        /\ knn = NoKnn
        /\ ret = NoRet

Receiver(who) == IF who = 1 THEN ts ELSE sub

\* the call's effect on its receiver, and its record
OnReceiver(who, r, op, idx) ==
  /\ ts' = IF who = 1 THEN r.t ELSE ts
  /\ sub' = IF who = 2 THEN r.t ELSE sub
  /\ UNCHANGED <<graph, knn>>
  /\ heap' = r.h
  /\ ret' = Ret(op, r.st, who, idx, r.val)

\* sub = ts.GetSub(key): sub keeps its tensor when the call panics
SubGetSub ==
  /\ Idle
  /\ \E key \in IndexInputs(ts.shape, -1) :
       LET r == GetSub(heap, 2, ts, key)
       IN  /\ ts' = ts
           /\ sub' = IF r.st = "ok" THEN r.t ELSE sub
           /\ UNCHANGED <<graph, knn>>
           /\ heap' = IF r.st = "ok" THEN r.h ELSE heap
           /\ ret' = Ret("GetSub", r.st, 1, key, NoVal)

SubSet ==
  /\ Idle
  /\ \E who \in {1, 2} :
       /\ Receiver(who) # NoTensor
       /\ \E idx \in IndexInputs(Receiver(who).shape, -1), value \in Values :
            OnReceiver(who, [Set(heap, Receiver(who), idx, value) EXCEPT !.val = value],
                       "Set", idx)

SubSetAt ==
  /\ Idle
  /\ \E who \in {1, 2} :
       /\ Receiver(who) # NoTensor
       /\ \E k \in -1..MaxSubLen + 1, value \in Values :
            OnReceiver(who, [SetAt(heap, Receiver(who), k, value) EXCEPT !.val = value],
                       "SetAt", <<k>>)

SubReshape ==
  /\ Idle
  /\ \E who \in {1, 2} :
       /\ Receiver(who) # NoTensor
       /\ \E shape \in SubShapeInputs :
            OnReceiver(who, Reshape(heap, Receiver(who), shape), "Reshape", shape)

NextSub ==
  \/ Observe
  \/ SubGetSub
  \/ SubSet
  \/ SubSetAt
  \/ SubReshape

SpecSub == InitSub /\ [][NextSub]_vars

\* ------------------------------------------------- the shape specification
\* Shape.Equal and Shape.StrideOf applied to the shapes of rank 0..ShRank
\* with axis sizes 1..ShDim; the record of the call keeps its arguments.
ShShapes == UNION {[1..r -> 1..ShDim] : r \in 0..ShRank}

InitShape ==
  /\ heap = EmptyHeap
  /\ ts = NoTensor
  /\ sub = NoTensor
  /\ graph = NewGraph
  /\ knn = NoKnn
  /\ ret = NoRet

\* a.Equal(b): ret.idx = a, ret.val.other = b
ShEqual ==
  /\ Idle
  /\ \E a \in ShShapes, b \in ShShapes :
       LET r == ShapeEqual(a, b)
       IN  /\ ret' = Ret("ShapeEqual", r.st, 0, a, [other |-> b, v |-> r.v])
           /\ UNCHANGED <<heap, ts, sub, graph, knn>>

\* a.StrideOf(dim) for the axes of a, counted from 0
ShStrideOf ==
  /\ Idle
  /\ \E a \in ShShapes :
       \E dim \in 0..Len(a) - 1 :
         /\ ret' = Ret("StrideOf", "ok", dim, a, [v |-> StrideOf(a, dim)])
         /\ UNCHANGED <<heap, ts, sub, graph, knn>>

NextShape ==
  \/ Observe
  \/ ShEqual
  \/ ShStrideOf

SpecShape == InitShape /\ [][NextShape]_vars

\* ---------------------------------------------- the equality specification
\* Tensors over the special values of each element type (the zeros, 1, an
\* infinity, a NaN), compared with themselves.
Specials(rep) ==
  IF rep = "f16" THEN {F16Val(0), F16Val(32768), One("f16"), F16Val(NaN), F16Val(InfPos)}
  ELSE IF rep = "f32"
    THEN {Flt("f32", 0, 0, 0, 0), Flt("f32", 1, 0, 0, 0), One("f32"),
          Flt("f32", 0, 255, 4194304, 0), Flt("f32", 0, 255, 0, 0)}
  ELSE {Flt("f64", 0, 0, 0, 0), Flt("f64", 1, 0, 0, 0), One("f64"),
        Flt("f64", 0, 2047, 4194304, 0), Flt("f64", 0, 2047, 0, 0)}

InitEq ==
  \E rep \in {"f16", "f32", "f64"}, typ \in Types, n \in 1..EqLen :
    \E v \in [1..n -> Specials(rep)] :
      LET r == Compact(NewTensor(EmptyHeap, 2,
                                 [kind |-> "slice", id |-> 1, buf |-> [rep |-> rep, v |-> v]],
                                 typ, <<n>>))
      IN  /\ heap = r.h
          /\ ts = r.t
          /\ sub = NoTensor
          /\ graph = NewGraph
          /\ knn = NoKnn
          /\ ret = NoRet

\* ts.Equal(ts)
EqSelf ==
  /\ Idle
  /\ LET r == TensorEqual(heap, ts, ts)
     IN  /\ ret' = Ret("Equal", r.st, 1, <<>>, [v |-> r.v])
         /\ UNCHANGED <<heap, ts, sub, graph, knn>>

EqSetAt ==
  /\ Idle
  /\ \E k \in 0..Len(heap[ts.data].v) - 1, value \in Specials(RepOf(ts.typ)) :
       OnTs([SetAt(heap, ts, k, value) EXCEPT !.val = value], "SetAt", k, <<>>)

NextEq ==
  \/ Observe
  \/ EqSelf
  \/ EqSetAt

SpecEq == InitEq /\ [][NextEq]_vars

\* ------------------------------------------------- the codec specification
\* ToF32 and ToF64 applied to every 16-bit pattern; FF32 and FF64 applied to
\* floats of either sign and every exponent field, with fractions that have
\* none, the lowest, the highest, alternate and all of their bits set.
Patterns == 0..Pow2(16) - 1

Fracs23 == {0, 1, 8191, 8192, 2796202, 4194304, 5592405, 8388607}

Fracs29 == {0, 1, 536870911}

F32Inputs == {Flt("f32", s, e, f, 0) : s \in {0, 1}, e \in 0..255, f \in Fracs23}

F64Inputs ==
  {Flt("f64", s, e, hi, lo) : s \in {0, 1}, e \in 0..2047, hi \in Fracs23, lo \in Fracs29}

InitCodec ==
  /\ heap = EmptyHeap
  /\ ts = NoTensor
  /\ sub = NoTensor
  /\ graph = NewGraph
  /\ knn = NoKnn
  /\ ret = NoRet

\* f16.ToF32(): ret.k = f16, ret.val = the float32
CodecToF32 ==
  /\ Idle
  /\ \E f16 \in Patterns :
       /\ ret' = Ret("ToF32", "ok", f16, <<>>, ToF32(f16))
       /\ UNCHANGED <<heap, ts, sub, graph, knn>>

CodecToF64 ==
  /\ Idle
  /\ \E f16 \in Patterns :
       /\ ret' = Ret("ToF64", "ok", f16, <<>>, ToF64(f16))
       /\ UNCHANGED <<heap, ts, sub, graph, knn>>

\* FF32(value): ret.val = value, ret.k = the Float16
CodecFF32 ==
  /\ Idle
  /\ \E value \in F32Inputs :
       /\ ret' = Ret("FF32", "ok", FF32(value), <<>>, value)
       /\ UNCHANGED <<heap, ts, sub, graph, knn>>

CodecFF64 ==
  /\ Idle
  /\ \E value \in F64Inputs :
       /\ ret' = Ret("FF64", "ok", FF64(value), <<>>, value)
       /\ UNCHANGED <<heap, ts, sub, graph, knn>>

NextCodec ==
  \/ Observe
  \/ CodecToF32
  \/ CodecToF64
  \/ CodecFF32
  \/ CodecFF64

SpecCodec == InitCodec /\ [][NextCodec]_vars

\* ------------------------------------------------------------------- Graph
\* Node ids count from 0 as in the code: edges[dst + 1] is the code's
\* graph.edges[dst].
AddNode(g) ==
  [vertices |-> g.vertices + 1, edges |-> Append(g.edges, <<>>)]

\* the graph after AddEdge and the error it returns
AddEdge(g, src, dst) ==
  IF src < 0 \/ dst < 0 \/ src >= g.vertices \/ dst >= g.vertices
    THEN [st |-> "NodeNoExist", g |-> g]
  ELSE [st |-> "ok",
        g |-> [g EXCEPT !.edges[dst + 1] = Append(g.edges[dst + 1], src)]]

InEdges(g, node) ==
  IF node < 0 \/ node >= Len(g.edges) THEN <<>> ELSE g.edges[node + 1]

\* hasCycleUtil, and its loop over the adjacent nodes from the j-th on; the
\* result carries the two slices, which the calls share
RECURSIVE hasCycleUtil(_, _, _, _)
RECURSIVE hasCycleAdj(_, _, _, _, _)
hasCycleUtil(node, visited, recStack, g) ==
  hasCycleAdj(node, 1, [visited EXCEPT ![node + 1] = TRUE],
              [recStack EXCEPT ![node + 1] = TRUE], g)

\* the loop without recStack[node] = false after it
RECURSIVE hasCycleAdjKeepStack(_, _, _, _, _)
hasCycleAdjKeepStack(node, j, visited, recStack, g) ==
  IF j > Len(InEdges(g, node))
    THEN [v |-> FALSE, visited |-> visited, recStack |-> recStack]
  ELSE LET adj == InEdges(g, node)[j]
           r   == hasCycleUtil(adj, visited, recStack, g)
       IN  IF ~visited[adj + 1]
             THEN IF r.v THEN r
                  ELSE IF r.recStack[adj + 1] THEN [r EXCEPT !.v = TRUE]
                  ELSE hasCycleAdjKeepStack(node, j + 1, r.visited, r.recStack, g)
           ELSE IF recStack[adj + 1]
             THEN [v |-> TRUE, visited |-> visited, recStack |-> recStack]
           ELSE hasCycleAdjKeepStack(node, j + 1, visited, recStack, g)

hasCycleAdj(node, j, visited, recStack, g) ==
  IF j > Len(InEdges(g, node))
    THEN [v |-> FALSE, visited |-> visited,
          recStack |-> [recStack EXCEPT ![node + 1] = FALSE]]
  ELSE LET adj == InEdges(g, node)[j]
           r   == hasCycleUtil(adj, visited, recStack, g)
       IN  IF ~visited[adj + 1]
             THEN IF r.v THEN r
                  ELSE IF r.recStack[adj + 1] THEN [r EXCEPT !.v = TRUE]
                  ELSE hasCycleAdj(node, j + 1, r.visited, r.recStack, g)
           ELSE IF recStack[adj + 1]
             THEN [v |-> TRUE, visited |-> visited, recStack |-> recStack]
           ELSE hasCycleAdj(node, j + 1, visited, recStack, g)

\* the loop of HasCycle from node i on
RECURSIVE HasCycleFrom(_, _, _, _)
HasCycleFrom(g, i, visited, recStack) ==
  IF i >= g.vertices THEN FALSE
  ELSE IF visited[i + 1] THEN HasCycleFrom(g, i + 1, visited, recStack)
  ELSE LET r == hasCycleUtil(i, visited, recStack, g)
       IN  IF r.v THEN TRUE ELSE HasCycleFrom(g, i + 1, r.visited, r.recStack)

HasCycle(g) ==
  HasCycleFrom(g, 0, [i \in 1..g.vertices |-> FALSE], [i \in 1..g.vertices |-> FALSE])

\* q without its j-th element: append(q[:j], q[j+1:]...)
RemoveAt(q, j) == [i \in 1..Len(q) - 1 |-> IF i < j THEN q[i] ELSE q[i + 1]]

\* the loop of RemoveEdge from the i-th source on: the first src is removed
RECURSIVE RemoveEdgeFrom(_, _, _, _)
RemoveEdgeFrom(g, src, dst, i) ==
  IF i > Len(g.edges[dst + 1]) THEN [st |-> "ok", v |-> FALSE, g |-> g]
  ELSE IF g.edges[dst + 1][i] = src
    THEN [st |-> "ok", v |-> TRUE,
          g |-> [g EXCEPT !.edges[dst + 1] = RemoveAt(g.edges[dst + 1], i)]]
  ELSE RemoveEdgeFrom(g, src, dst, i + 1)

\* the bounds test admits src and dst = len(graph.vertices); graph.edges[dst]
\* is then an index out of range
RemoveEdge(g, src, dst) ==
  IF src < 0 \/ src > g.vertices \/ dst < 0 \/ dst > g.vertices
    THEN [st |-> "ok", v |-> FALSE, g |-> g]
  ELSE IF dst >= Len(g.edges) THEN [st |-> "Fault", v |-> FALSE, g |-> g]
  ELSE RemoveEdgeFrom(g, src, dst, 1)

HasEdge(g, src, dst) ==
  IF src < 0 \/ src >= g.vertices THEN FALSE
  ELSE IF dst < 0 \/ dst >= g.vertices THEN FALSE
  ELSE \E i \in 1..Len(g.edges[dst + 1]) : g.edges[dst + 1][i] = src

\* RenumberFrom with the position advanced after a removal as well
RECURSIVE RenumberFromSkip(_, _, _)
RenumberFromSkip(srcLs, node, j) ==
  IF j > Len(srcLs) THEN srcLs
  ELSE IF srcLs[j] = node THEN RenumberFromSkip(RemoveAt(srcLs, j), node, j + 1)
  ELSE RenumberFromSkip([srcLs EXCEPT ![j] = IF srcLs[j] > node THEN srcLs[j] - 1
                                            ELSE srcLs[j]],
                        node, j + 1)

\* the inner loop of RemoveNodeAt over one source list, from its j-th entry on
RECURSIVE RenumberFrom(_, _, _)
RenumberFrom(srcLs, node, j) ==
  IF j > Len(srcLs) THEN srcLs
  ELSE IF srcLs[j] = node THEN RenumberFrom(RemoveAt(srcLs, j), node, j)
  ELSE RenumberFrom([srcLs EXCEPT ![j] = IF srcLs[j] > node THEN srcLs[j] - 1
                                        ELSE srcLs[j]],
                    node, j + 1)

RemoveNodeAt(g, node) ==
  IF node < 0 \/ node >= g.vertices THEN [st |-> "ok", v |-> FALSE, g |-> g]
  ELSE LET rest == RemoveAt(g.edges, node + 1)
       IN  [st |-> "ok", v |-> TRUE,
            g |-> [vertices |-> g.vertices - 1,
                   edges |-> [i \in 1..Len(rest) |-> RenumberFrom(rest[i], node, 1)]]]

\* --------------------------------------------------- the graph specification
\* A graph built by AddNode and AddEdge, asked for a cycle.
CountEdgesFrom(g) == [d \in 1..Len(g.edges) |-> Len(g.edges[d])]

RECURSIVE SumSeq(_)
SumSeq(q) == IF Len(q) = 0 THEN 0 ELSE q[1] + SumSeq(Tail(q))

InitGraph ==
  /\ heap = EmptyHeap
  /\ ts = NoTensor
  /\ sub = NoTensor
  /\ knn = NoKnn
  /\ graph = NewGraph
  /\ ret = NoRet

GraphAddNode ==
  /\ Idle
  /\ graph.vertices < MaxNodes
  /\ graph' = AddNode(graph)
  /\ ret' = Ret("AddNode", "ok", graph.vertices, <<>>, NoVal)
  /\ UNCHANGED <<heap, ts, sub, knn>>

GraphAddEdge ==
  /\ Idle
  /\ SumSeq(CountEdgesFrom(graph)) < MaxEdges
  /\ \E src \in -1..graph.vertices, dst \in -1..graph.vertices :
       LET r == AddEdge(graph, src, dst)
       IN  /\ graph' = r.g
           /\ ret' = Ret("AddEdge", r.st, 0, <<src, dst>>, NoVal)
           /\ UNCHANGED <<heap, ts, sub, knn>>

GraphHasCycle ==
  /\ Idle
  /\ ret' = Ret("HasCycle", "ok", 0, <<>>, [v |-> HasCycle(graph)])
  /\ UNCHANGED <<heap, ts, sub, graph, knn>>

NextGraph ==
  \/ Observe
  \/ GraphAddNode
  \/ GraphAddEdge
  \/ GraphHasCycle

SpecGraph == InitGraph /\ [][NextGraph]_vars

\* --------------------------------------------------------------------- KNN
\* A run of knn.Fit(testData).  knn.plv is the package's plv (0: SetParallelLv
\* was never called), knn.dist[i] what knn.dist.Eval gives for data point i,
\* knn.label[i] its label, knn.distances the slice Fit fills (FALSE: the
\* entry is still nil), knn.wg the WaitGroup's counter, knn.prll the number
\* of values in the channel prll, knn.pc where Fit is and knn.g[i] where
\* goroutine i is.

\* sort.Slice on a slice this short is an insertion sort, which keeps equal
\* distances in index order: the position of entry i after it
SortedPos(dist, i) ==
  1 + Cardinality({j \in 1..Len(dist) :
                     dist[j] < dist[i] \/ (dist[j] = dist[i] /\ j < i)})

\* distances[:k] after the sort, as the set of the data points in it
KSet(dist, k) == {i \in 1..Len(dist) : SortedPos(dist, i) <= k}

\* binarySelector.Label
BinaryLabel(label, kset) ==
  Cardinality({i \in kset : label[i]}) > Cardinality({i \in kset : ~label[i]})

InitKnn ==
  /\ heap = EmptyHeap
  /\ ts = NoTensor
  /\ sub = NoTensor
  /\ graph = NewGraph
  /\ ret = NoRet
  /\ \E n \in 1..KnnPoints, lv \in 0..KnnLevel :
       \E k \in 1..n, dist \in [1..n -> 1..2], label \in [1..n -> BOOLEAN] :
         knn = [pc |-> "start", plv |-> lv, k |-> k, dist |-> dist, label |-> label,
                distances |-> [i \in 1..n |-> FALSE],
                g |-> [i \in 1..n |-> "none"], wg |-> 0, prll |-> 0]

Running == knn.pc \notin {"fault", "none"}

\* level <= 1: the loop that fills distances in Fit's own goroutine
FitSequential ==
  /\ knn.pc = "start"
  /\ knn.plv <= 1
  /\ knn' = [knn EXCEPT !.distances = [i \in 1..Len(knn.dist) |-> TRUE], !.pc = "sort"]
  /\ UNCHANGED <<heap, ts, sub, ret, graph>>

\* level > 1: the loop of go statements; wg.Add is never called
FitSpawn ==
  /\ knn.pc = "start"
  /\ knn.plv > 1
  /\ \E i \in 1..Len(knn.g) :
       /\ knn.g[i] = "none"
       /\ \A j \in 1..i - 1 : knn.g[j] # "none"
       /\ knn' = [knn EXCEPT !.g[i] = "send",
                             !.pc = IF i = Len(knn.g) THEN "wait" ELSE "start"]
  /\ UNCHANGED <<heap, ts, sub, ret, graph>>

\* wg.Wait() returns when the counter is 0
FitWait ==
  /\ knn.pc = "wait"
  /\ knn.wg = 0
  /\ knn' = [knn EXCEPT !.pc = "sort"]
  /\ UNCHANGED <<heap, ts, sub, ret, graph>>

\* sort.Slice, distances[:knn.k] and selector.Label: a nil entry is
\* dereferenced by the sort's less function or by the selector
FitSortAndSelect ==
  /\ knn.pc = "sort"
  /\ IF \E i \in 1..Len(knn.distances) : ~knn.distances[i]
       THEN /\ knn' = [knn EXCEPT !.pc = "fault"]
            /\ ret' = Ret("Fit", "Fault", 0, <<>>, NoVal)
       ELSE /\ knn' = [knn EXCEPT !.pc = "returned"]
            /\ ret' = Ret("Fit", "ok", 0, <<>>,
                          [v |-> BinaryLabel(knn.label, KSet(knn.dist, knn.k))])
  /\ UNCHANGED <<heap, ts, sub, graph>>

\* prll <- 0 blocks while the channel holds plv values
GoSend ==
  /\ Running
  /\ \E i \in 1..Len(knn.g) :
       /\ knn.g[i] = "send"
       /\ knn.prll < knn.plv
       /\ knn' = [knn EXCEPT !.g[i] = "eval", !.prll = knn.prll + 1]
  /\ UNCHANGED <<heap, ts, sub, ret, graph>>

\* distances[i] = newDataDist(knn.dist.Eval(d.Point(), testData), d)
GoEval ==
  /\ Running
  /\ \E i \in 1..Len(knn.g) :
       /\ knn.g[i] = "eval"
       /\ knn' = [knn EXCEPT !.g[i] = "recv", !.distances[i] = TRUE]
  /\ UNCHANGED <<heap, ts, sub, ret, graph>>

\* <-prll
GoRecv ==
  /\ Running
  /\ \E i \in 1..Len(knn.g) :
       /\ knn.g[i] = "recv"
       /\ knn' = [knn EXCEPT !.g[i] = "done", !.prll = knn.prll - 1]
  /\ UNCHANGED <<heap, ts, sub, ret, graph>>

\* the deferred wg.Done(): a counter below 0 panics, which ends the program
GoDone ==
  /\ Running
  /\ \E i \in 1..Len(knn.g) :
       /\ knn.g[i] = "done"
       /\ knn' = [knn EXCEPT !.g[i] = "exited", !.wg = knn.wg - 1,
                             !.pc = IF knn.wg - 1 < 0 THEN "fault" ELSE knn.pc]
  /\ UNCHANGED <<heap, ts, sub, ret, graph>>

NextKnn ==
  \/ FitSequential
  \/ FitSpawn
  \/ FitWait
  \/ FitSortAndSelect
  \/ GoSend
  \/ GoEval
  \/ GoRecv
  \/ GoDone

SpecKnn == InitKnn /\ [][NextKnn]_vars

\* ---------------------------------------------- the graph editing specification
\* A graph built and taken apart by AddNode, AddEdge, RemoveEdge and
\* RemoveNodeAt.
GraphRemoveEdge ==
  /\ Idle
  /\ \E src \in -1..graph.vertices + 1, dst \in -1..graph.vertices + 1 :
       LET r == RemoveEdge(graph, src, dst)
       IN  /\ graph' = r.g
           /\ ret' = Ret("RemoveEdge", r.st, 0, <<src, dst>>, [v |-> r.v])
           /\ UNCHANGED <<heap, ts, sub, knn>>

GraphRemoveNodeAt ==
  /\ Idle
  /\ \E node \in -1..graph.vertices :
       LET r == RemoveNodeAt(graph, node)
       IN  /\ graph' = r.g
           /\ ret' = Ret("RemoveNodeAt", r.st, node, <<>>, [v |-> r.v])
           /\ UNCHANGED <<heap, ts, sub, knn>>

NextGraphEdit ==
  \/ Observe
  \/ GraphAddNode
  \/ GraphAddEdge
  \/ GraphRemoveEdge
  \/ GraphRemoveNodeAt

SpecGraphEdit == InitGraph /\ [][NextGraphEdit]_vars

\* ------------------------------------------------------------------ claims
Errors == {"InvalidShape", "DimMismatch", "IndexOutOfRange", "InvalidData",
           "TypeMismatch"}

Writers == {"Set", "SetAt", "SetF", "Reshape"}

Positive(sh) == \A i \in 1..Len(sh) : sh[i] > 0

\* a tensor as the data model describes it
WellFormed(h, t) ==
  /\ Len(h[t.data].v) = AxisProduct(t.shape, Len(t.shape))
  /\ t.strides = [a \in 1..Len(t.shape) |-> AxisProduct(t.shape, a - 1)]
  /\ t.rank = Len(t.shape)

\* C3: after any sequence of calls, successful or failing, every tensor has a
\* buffer of shape.Len() elements, the strides of its current shape, the rank
\* of its current shape, and the precision tag it was built with.
\* Refuted: Reshape(Shape{}) of a one-element tensor stores the new shape and
\* then panics in Shape.Strides, leaving the old strides and rank behind.
C3_TensorInvariant ==
  [][/\ ts' # NoTensor => WellFormed(heap', ts')
     /\ (ts # NoTensor /\ ret'.op \notin {"NewTensor", "NewTensorNil", "GetSub"})
          => ts'.typ = ts.typ]_vars

\* C7: NewTensor with no buffer, for each precision and each shape of rank >= 1
\* with positive axis sizes, gives a tensor of the requested precision whose
\* buffer is of that precision's representation, has shape.Len() elements,
\* all zero, so that the typed slice accessor and typed getters succeed.
C7_NilBufferIsZeroFilled ==
  (ret.op = "NewTensorNil" /\ ret.k \in Types /\ Len(ret.idx) >= 1 /\ Positive(ret.idx))
    => /\ ret.st = "ok"
       /\ ts.typ = ret.k
       /\ ts.shape = ret.idx
       /\ heap[ts.data].rep = RepOf(ret.k)
       /\ Len(heap[ts.data].v) = AxisProduct(ret.idx, Len(ret.idx))
       /\ \A i \in 1..Len(heap[ts.data].v) :
            heap[ts.data].v[i] = Flt(RepOf(ret.k), 0, 0, 0, 0)
       /\ FSlice(heap, ts, ret.k).st = "ok"
       /\ \A k \in 0..Len(heap[ts.data].v) - 1 :
            GetFAt(heap, ts, ret.k, index(ts, k).v).val = Flt(RepOf(ret.k), 0, 0, 0, 0)

C7_Witness ==
  /\ ret.op = "NewTensorNil"
  /\ ret.st = "ok"
  /\ ret.k = Float32
  /\ ret.idx = <<2, 2>>
  /\ heap[ts.data].rep = "f32"

\* C8: GetAt(k) and SetAt(k, v) fail with IndexOutOfRange for every k outside
\* [0, shape.Len()), k = shape.Len() included; inside it GetAt returns buffer
\* element k and SetAt of a value of the tensor's precision writes it.
\* Refuted: testOffset lets k = shape.Len() through and the slice access
\* panics with Go's run-time index error.
C8_FlatOffsetRange ==
  (ret.op \in {"GetAt", "SetAt"})
    => LET n == AxisProduct(ts.shape, Len(ts.shape))
       IN  /\ ret.k \notin 0..n - 1 => ret.st = "IndexOutOfRange"
           /\ (ret.k \in 0..n - 1 /\ ret.op = "GetAt")
                => ret.st = "ok" /\ ret.val = heap[ts.data].v[ret.k + 1]
           /\ (ret.k \in 0..n - 1 /\ ret.op = "SetAt" /\ ret.val.rep = RepOf(ts.typ))
                => ret.st = "ok" /\ heap[ts.data].v[ret.k + 1] = ret.val

\* C9: whenever a Set, SetAt, SetF16/32/64 or Reshape fails, the tensor's
\* buffer contents, shape, strides, rank and precision tag are what they were
\* before the call.
\* Refuted: Reshape to the rank-0 shape of a one-element tensor replaces the
\* shape and then fails in Shape.Strides.
C9_FailedWriteChangesNothing ==
  [][(ret'.op \in Writers /\ ret'.st # "ok") => (ts' = ts /\ heap' = heap)]_vars

\* C10: every call of a Shape or Tensor operation completes or aborts with one
\* of the five declared error kinds.
\* Refuted: a rank-0 shape, a flat offset equal to shape.Len() and shapes of
\* different rank end in Go's run-time index error.
C10_OnlyDeclaredErrors == ret.st \in Errors \cup {"ok"}

\* C1: for a shape of rank >= 1 with positive axis sizes, index and offset are
\* inverses: index(k) lies inside the axes and offset(index(k)) = k for every
\* k in [0, shape.Len()), and index(offset(i)) = i for every in-range i.
C1_IndexOffsetInverse ==
  /\ ret.op = "index"
       => /\ ret.st = "ok"
          /\ Len(ret.idx) = Len(ts.shape)
          /\ \A a \in 1..Len(ret.idx) : ret.idx[a] >= 0 /\ ret.idx[a] < ts.shape[a]
          /\ offset(ts, ret.idx) = Res("ok", ret.k)
  /\ ret.op = "offset"
       => /\ ret.st = "ok"
          /\ ret.k >= 0 /\ ret.k < AxisProduct(ts.shape, Len(ts.shape))
          /\ index(ts, ret.k) = Res("ok", ret.idx)

C1_Witness ==
  /\ ret.op = "index"
  /\ ts.shape = <<2, 3, 2>>
  /\ ret.k = 7
  /\ ret.idx = <<1, 0, 1>>

\* C2: a successful Reshape leaves GetAt(k) as it was for every k in
\* [0, shape.Len()), and the precision tag and the buffer (its address, length
\* and element order) with it: only shape, strides and rank change.
C2_ReshapeKeepsBuffer ==
  [][(ret'.op = "Reshape" /\ ret'.st = "ok")
       => /\ heap' = heap
          /\ ts'.data = ts.data
          /\ ts'.typ = ts.typ
          /\ ts'.shape = ret'.idx
          /\ \A k \in 0..AxisProduct(ts'.shape, Len(ts'.shape)) - 1 :
               /\ GetAt(heap', ts', k).st = "ok"
               /\ GetAt(heap', ts', k).val = GetAt(heap, ts, k).val]_vars

C2_Witness ==
  /\ ret.op = "Reshape"
  /\ ret.st = "ok"
  /\ ts.shape = <<2, 2, 2, 2>>
  /\ GetAt(heap, ts, 9).val = ConvertElem(F64Of(9), ts.typ)

\* C4: Get(i) and the matching typed getter return, for every in-range i, the
\* buffer element at the sum over the axes of stride[a] * i[a], stride[0] = 1
\* and stride[a] = stride[a-1] * shape[a-1]; the buffer 0..15 under (4,4)
\* gives 9 at [1,2], and under (2,2,2,2) gives 9 at [1,0,0,1].
RECURSIVE WeightedSum(_, _, _)
WeightedSum(sh, idx, n) ==
  IF n = 0 THEN 0 ELSE AxisProduct(sh, n - 1) * idx[n] + WeightedSum(sh, idx, n - 1)

C4_GetReadsStridedOffset ==
  (/\ ret.op \in {"Get", "GetFAt"}
   /\ Len(ret.idx) = Len(ts.shape)
   /\ \A a \in 1..Len(ret.idx) : ret.idx[a] >= 0 /\ ret.idx[a] < ts.shape[a]
   /\ ret.op = "GetFAt" => ret.k = ts.typ)
    => /\ ret.st = "ok"
       /\ ret.val = heap[ts.data].v[WeightedSum(ts.shape, ret.idx, Len(ret.idx)) + 1]
       /\ (ts.shape = <<4, 4>> /\ ret.idx = <<1, 2>>)
            => ret.val = ConvertElem(F64Of(9), ts.typ)
       /\ (ts.shape = <<2, 2, 2, 2>> /\ ret.idx = <<1, 0, 0, 1>>)
            => ret.val = ConvertElem(F64Of(9), ts.typ)

C4_Witness ==
  /\ ret.op = "GetFAt"
  /\ ts.typ = Float64
  /\ ts.shape = <<2, 2, 2, 2>>
  /\ ret.idx = <<1, 0, 0, 1>>
  /\ ret.val = F64Of(9)

\* a valid key of a shape: of its rank, each entry -1 or inside its axis
ValidKey(sh, key) ==
  /\ Len(key) = Len(sh)
  /\ \A a \in 1..Len(key) : key[a] = -1 \/ (key[a] >= 0 /\ key[a] < sh[a])

\* C5: for every tensor and every valid key, GetSub returns a tensor of the
\* source's rank and precision, with the source's axis size on the wildcard
\* axes and 1 on the fixed ones, whose element at each multi-index d is the
\* source's element at d with the fixed axes' coordinates put to the key's.
C5_GetSubCopiesSlice ==
  (ret.op = "GetSub" /\ ValidKey(ts.shape, ret.idx))
    => /\ ret.st = "ok"
       /\ sub.rank = ts.rank
       /\ sub.typ = ts.typ
       /\ sub.shape = [a \in 1..Len(ts.shape) |->
                         IF ret.idx[a] = -1 THEN ts.shape[a] ELSE 1]
       /\ \A d \in InRange(sub.shape) :
            LET src == [a \in 1..Len(d) |-> IF ret.idx[a] = -1 THEN d[a] ELSE ret.idx[a]]
            IN  heap[sub.data].v[WeightedSum(sub.shape, d, Len(d)) + 1]
                  = heap[ts.data].v[WeightedSum(ts.shape, src, Len(src)) + 1]

\* C6: the tensor GetSub returns shares no storage with its source: a Set,
\* SetAt or Reshape of the source leaves the result's elements and shape as
\* they were, and one of the result leaves the source's as they were.
C6_GetSubSharesNoStorage ==
  [][/\ sub' # NoTensor => sub'.data # ts'.data
     /\ (sub # NoTensor /\ ret'.op \in {"Set", "SetAt", "Reshape"})
          => /\ ret'.k = 1 => (sub' = sub /\ heap'[sub.data] = heap[sub.data])
             /\ ret'.k = 2 => (ts' = ts /\ heap'[ts.data] = heap[ts.data])]_vars

C6_Witness ==
  /\ ret.op = "Set"
  /\ ret.st = "ok"
  /\ ret.k = 1
  /\ sub # NoTensor
  /\ sub.shape = ts.shape
  /\ Len(heap[ts.data].v) >= 2
  /\ heap[ts.data].v[1] # heap[sub.data].v[1]

\* C11: for shapes of rank >= 1, a recognized buffer (or none) and a declared
\* precision, NewTensor fails with InvalidShape exactly when some axis size is
\* <= 0 or the supplied buffer's length differs from shape.Len(), and succeeds
\* otherwise; Reshape fails with InvalidShape exactly when some new axis size
\* is <= 0 or newShape.Len() differs from the buffer's length, and succeeds
\* otherwise.
C11_InvalidShapeExactly ==
  [][/\ (/\ ret'.op \in {"NewTensor", "NewTensorNil"}
         /\ Len(ret'.idx) >= 1
         /\ ret'.k \in Types
         /\ ret'.val.rep \in {"none", "f16", "f32", "f64"})
          => LET bad == \/ ~Positive(ret'.idx)
                        \/ /\ ret'.val.kind = "slice"
                           /\ ret'.val.len # AxisProduct(ret'.idx, Len(ret'.idx))
             IN  ret'.st = IF bad THEN "InvalidShape" ELSE "ok"
     /\ (ret'.op = "Reshape" /\ Len(ret'.idx) >= 1)
          => LET bad == \/ ~Positive(ret'.idx)
                        \/ AxisProduct(ret'.idx, Len(ret'.idx)) # Len(heap[ts.data].v)
             IN  ret'.st = IF bad THEN "InvalidShape" ELSE "ok"]_vars

C11_Witness ==
  /\ ret.op = "NewTensor"
  /\ ret.st = "InvalidShape"
  /\ ret.k = Float32
  /\ ret.idx = <<2, 2>>
  /\ ret.val = [kind |-> "slice", rep |-> "f64", len |-> 5]

\* C12: a.Equal(b) returns true if and only if a and b have the same rank and
\* the same size on every axis, and false otherwise (so for (4) and (4,1) in
\* either order).
\* Refuted: Equal compares the element counts and then indexes b by a's axes.
C12_ShapeEqualIsEquality ==
  ret.op = "ShapeEqual"
    => /\ ret.st = "ok"
       /\ ret.val.v = (ret.idx = ret.val.other)

\* C14: for every shape and every axis of it, StrideOf(axis) returns the
\* product of the axis sizes strictly after that axis.
\* Refuted: StrideOf never reads its argument.
RECURSIVE ProductAfter(_, _)
ProductAfter(sh, a) ==
  IF a >= Len(sh) THEN 1 ELSE sh[a + 1] * ProductAfter(sh, a + 1)

C14_StrideOfIsProductAfter ==
  ret.op = "StrideOf" => ret.val.v = ProductAfter(ret.idx, ret.k + 1)

\* C13: Tensor.Equal is reflexive: t.Equal(t) returns true for every tensor t
\* of any precision, whatever values its buffer holds.
\* Refuted: a float32 or float64 NaN differs from itself under !=.
C13_EqualIsReflexive ==
  (ret.op = "Equal" /\ ret.k = 1) => (ret.st = "ok" /\ ret.val.v = TRUE)

\* the fields of a 16-bit pattern
SignOf(h) == (h \div 32768) % 2

ExpOf(h) == (h \div 1024) % 32

MantOf(h) == h % 1024

\* the all-ones exponent field and the bias of a float32 or float64
MaxExp(rep) == IF rep = "f32" THEN 255 ELSE 2047

Bias(rep) == IF rep = "f32" THEN 127 ELSE 1023

\* C15: for every 16-bit pattern, ToF32 and ToF64 decode exponent field 31
\* with a nonzero mantissa to a NaN, exponent field 31 with mantissa 0 to the
\* infinity of the pattern's sign, and exponent field 0 with mantissa 0 to
\* positive zero whatever the sign bit is.
C15_DecodeSpecials ==
  ret.op \in {"ToF32", "ToF64"}
    => LET v   == ret.val
           rep == IF ret.op = "ToF32" THEN "f32" ELSE "f64"
       IN  /\ v.rep = rep
           /\ (ExpOf(ret.k) = 31 /\ MantOf(ret.k) # 0)
                => (v.e = MaxExp(rep) /\ (v.hi # 0 \/ v.lo # 0))
           /\ (ExpOf(ret.k) = 31 /\ MantOf(ret.k) = 0)
                => v = Flt(rep, SignOf(ret.k), MaxExp(rep), 0, 0)
           /\ (ExpOf(ret.k) = 0 /\ MantOf(ret.k) = 0)
                => v = Flt(rep, 0, 0, 0, 0)
           /\ ret.k = NaN => (v.e = MaxExp(rep) /\ (v.hi # 0 \/ v.lo # 0))
           /\ ret.k = InfPos => v = Flt(rep, 0, MaxExp(rep), 0, 0)
           /\ ret.k = InfNeg => v = Flt(rep, 1, MaxExp(rep), 0, 0)

C15_Witness ==
  /\ ret.op = "ToF32"
  /\ ret.k = InfNeg
  /\ ret.val = Flt("f32", 1, 255, 0, 0)

\* C18: for every finite source float too small for a normal half (exponent
\* field 0, or sexp = exp - bias + 15 <= 0), FF32 and FF64 return a pattern
\* whose exponent field is 0 and whose sign bit is the source's.
\* Refuted: FF64 narrows frac >> (1 - sexp + 13) to 16 bits, which keeps bits
\* above the mantissa.
C18_TooSmallEncodesSubnormal ==
  (/\ ret.op \in {"FF32", "FF64"}
   /\ ret.val.e # MaxExp(ret.val.rep)
   /\ (ret.val.e = 0 \/ ret.val.e - Bias(ret.val.rep) + 15 <= 0))
    => /\ ExpOf(ret.k) = 0
       /\ SignOf(ret.k) = ret.val.s
       /\ (ret.val.e = 0 /\ ret.val.hi = 0 /\ ret.val.lo = 0 /\ ret.val.s = 0)
            => ret.k = 0

\* C19: for every float32 and float64 whose exponent field is neither 0 nor
\* all ones, with sexp = exp - bias + 15: for sexp in 1..30 the encoder
\* returns sign<<15 | sexp<<10 | the top 10 bits of the mantissa, and for
\* sexp >= 31 the infinity of the source's sign.
C19_EncodeNormals ==
  (/\ ret.op \in {"FF32", "FF64"}
   /\ ret.val.e # 0
   /\ ret.val.e # MaxExp(ret.val.rep))
    => LET sexp == ret.val.e - Bias(ret.val.rep) + 15
       IN  /\ (sexp >= 1 /\ sexp <= 30)
                => ret.k = ret.val.s * 32768 + sexp * 1024 + ret.val.hi \div 8192
           /\ sexp >= 31 => ret.k = IF ret.val.s = 1 THEN InfNeg ELSE InfPos

C19_Witness ==
  /\ ret.op = "FF64"
  /\ ret.val = Flt("f64", 1, 1023, 5592405, 536870911)
  /\ ret.k = 32768 + 15 * 1024 + 682

\* C20: for every pattern with exponent field 0 and mantissa m # 0, ToF32
\* and ToF64 end after n shifts, 1 <= n <= 10, n the number of left shifts
\* that bring bit 10 of m to 1, with the pattern's sign, biased exponent
\* 113 - n (1009 - n), and mantissa (m << n) & 0x3FF left-aligned: the value
\* +/- m * 2^-24.
C20_DecodeSubnormals ==
  (ret.op \in {"ToF32", "ToF64"} /\ ExpOf(ret.k) = 0 /\ MantOf(ret.k) # 0)
    => LET rep == IF ret.op = "ToF32" THEN "f32" ELSE "f64"
           m   == MantOf(ret.k)
           n   == 10 - Log2(m)
       IN  /\ n >= 1 /\ n <= 10
           /\ ret.val = Flt(rep, SignOf(ret.k), Bias(rep) - 14 - n,
                            ((m * Pow2(n)) % 1024) * 8192, 0)
           /\ 1024 + ret.val.hi \div 8192 = m * Pow2(n)
           /\ ret.val.hi % 8192 = 0

C20_Witness ==
  /\ ret.op = "ToF32"
  /\ ret.k = 32768 + 3
  /\ ret.val = Flt("f32", 1, 104, 4194304, 0)

\* the edges of a graph as pairs <<src, dst>>
EdgePairs(g) ==
  UNION {{<<g.edges[d][j], d - 1>> : j \in 1..Len(g.edges[d])} : d \in 1..Len(g.edges)}

\* the pairs joined by a directed path of 1 .. n + 1 edges of E
RECURSIVE PathPairs(_, _)
PathPairs(E, n) ==
  IF n = 0 THEN E
  ELSE LET P == PathPairs(E, n - 1)
       IN  P \cup {<<x[1][1], x[2][2]>> : x \in {y \in P \X E : y[1][2] = y[2][1]}}

\* C17: for every graph built by AddNode and AddEdge, HasCycle returns true if
\* and only if the graph has a directed cycle (a self-loop is one), and it
\* terminates.
C17_HasCycleIffCycle ==
  ret.op = "HasCycle"
    => /\ ret.st = "ok"
       /\ ret.val.v = (\E n \in 0..graph.vertices - 1 :
                         <<n, n>> \in PathPairs(EdgePairs(graph), graph.vertices))

C17_Witness ==
  /\ ret.op = "HasCycle"
  /\ ret.val.v = TRUE
  /\ graph.vertices = 3
  /\ graph.edges = <<<<2>>, <<0>>, <<1>>>>

\* C16: Fit returns the selector's label over the k data points nearest to
\* testData at every parallelism level: with level > 1, in every
\* interleaving, Fit sorts and selects only after every goroutine has written
\* its entry, returns the label of the sequential path, and ends without a
\* fault.
\* Refuted: Fit never calls wg.Add, so wg.Wait() does not wait and the first
\* wg.Done() panics.
C16_FitWaitsAndAgrees ==
  /\ knn.pc # "fault"
  /\ knn.pc \in {"sort", "returned"}
       => \A i \in 1..Len(knn.distances) : knn.distances[i]
  /\ knn.pc = "returned"
       => /\ ret.st = "ok"
          /\ \E S \in SUBSET (1..Len(knn.dist)) :
               /\ Cardinality(S) = knn.k
               /\ \A x \in S, y \in (1..Len(knn.dist)) \ S : knn.dist[x] <= knn.dist[y]
               /\ ret.val.v = BinaryLabel(knn.label, S)

\* C21: decoding then re-encoding is the identity on half patterns: for every
\* 16-bit pattern h that is neither a NaN pattern nor negative zero,
\* FF32(h.ToF32()) = h and FF64(h.ToF64()) = h.
\* Refuted: the encoders drop the leading 1 of a float that falls in the half
\* subnormal range.
C21_DecodeEncodeIdentity ==
  (/\ ret.op \in {"ToF32", "ToF64"}
   /\ ~(ExpOf(ret.k) = 31 /\ MantOf(ret.k) # 0)
   /\ ret.k # 32768)
    => IF ret.op = "ToF32" THEN FF32(ret.val) = ret.k ELSE FF64(ret.val) = ret.k

\* the renumbering of the nodes other than i after node i is removed
Renumbered(x, i) == IF x < i THEN x ELSE x - 1

\* C22: a successful RemoveNodeAt(i) removes node i with every edge into or
\* out of it and keeps every other edge under renumbering: for all remaining
\* nodes a, b, HasEdge(r(a), r(b)) holds afterwards if and only if
\* HasEdge(a, b) held before, and every stored edge endpoint is a valid node
\* index afterwards.
C22_RemoveNodeAtKeepsOtherEdges ==
  [][(ret'.op = "RemoveNodeAt" /\ ret'.val.v)
       => LET i == ret'.k
          IN  /\ graph'.vertices = graph.vertices - 1
              /\ Len(graph'.edges) = graph'.vertices
              /\ \A a \in (0..graph.vertices - 1) \ {i}, b \in (0..graph.vertices - 1) \ {i} :
                   HasEdge(graph', Renumbered(a, i), Renumbered(b, i))
                     <=> HasEdge(graph, a, b)
              /\ \A d \in 1..Len(graph'.edges) :
                   \A j \in 1..Len(graph'.edges[d]) :
                     graph'.edges[d][j] >= 0 /\ graph'.edges[d][j] < graph'.vertices]_vars

C22_Witness ==
  /\ ret.op = "RemoveNodeAt"
  /\ ret.val.v = TRUE
  /\ ret.k = 1
  /\ graph.vertices = 2
  /\ graph.edges = <<<<1>>, <<>>>>

=============================================================================
